---- MODULE Spec2Model ----
(***************************************************************************)
(* Model of src/bot.py: the Telegram bot that answers a message holding a  *)
(* LEGO set number with the set's card from the Rebrickable catalog.       *)
(*                                                                         *)
(* Strings are sequences of one-character strings, so that the regular     *)
(* expressions, str.lower(), str.strip(), int() and str() of the code are  *)
(* computed character by character.  Every handler task is a coroutine;    *)
(* one action is one stretch of it that ends in an outbound call.          *)
(***************************************************************************)
EXTENDS Integers, Sequences, FiniteSets, TLC

(***************************************************************************)
(* Bounds of the model.                                                    *)
(***************************************************************************)
\* longest run of leading "0" characters in a generated digit run
MaxZeros == 1
\* longest run of "7" characters in a generated digit run
MaxSevens == 6
\* handler tasks the dispatcher may have in flight at the same time
NumTasks == 2

(***************************************************************************)
(* Python values and string primitives.                                    *)
(***************************************************************************)
\* Python's None where an int is expected (int | None)
None == -1

UPPERCASE == <<"A","B","C","D","E","F","G","H","I","J","K","L","M","N","O","P","Q","R","S","T","U","V","W","X","Y","Z">>
LOWERCASE == <<"a","b","c","d","e","f","g","h","i","j","k","l","m","n","o","p","q","r","s","t","u","v","w","x","y","z">>
DIGITS == <<"0","1","2","3","4","5","6","7","8","9">>

\* str.lower() on one character
lower_char(c) ==
    IF c \in {UPPERCASE[i] : i \in 1..26}
    THEN LOWERCASE[CHOOSE i \in 1..26 : UPPERCASE[i] = c]
    ELSE c

\* str.lower()
lower(s) == [i \in 1..Len(s) |-> lower_char(s[i])]

\* the `sub in s` substring test
Contains(s, sub) ==
    \E i \in 0..(Len(s) - Len(sub)) : SubSeq(s, i + 1, i + Len(sub)) = sub

\* the character class \d
IsDigit(c) == \E i \in 1..10 : DIGITS[i] = c

\* the character class \s
IsSpace(c) == c \in {" ", "\n", "\t"}

DigitVal(c) == (CHOOSE i \in 1..10 : DIGITS[i] = c) - 1

\* int() of a digit string
RECURSIVE int(_)
int(ds) ==
    IF ds = <<>> THEN 0
    ELSE int(SubSeq(ds, 1, Len(ds) - 1)) * 10 + DigitVal(ds[Len(ds)])

\* str() of a non-negative int
RECURSIVE str(_)
str(n) ==
    IF n < 10 THEN <<DIGITS[n + 1]>>
    ELSE str(n \div 10) \o <<DIGITS[(n % 10) + 1]>>

\* end of the greedy \s* that starts at index i: the first index >= i that
\* holds no whitespace, Len(s) + 1 when there is none
SkipSpaces(s, i) ==
    CHOOSE j \in i..(Len(s) + 1) :
        /\ \A k \in i..(j - 1) : IsSpace(s[k])
        /\ (j = Len(s) + 1 \/ ~IsSpace(s[j]))

\* end of the greedy \d* that starts at index i
SkipDigits(s, i) ==
    CHOOSE j \in i..(Len(s) + 1) :
        /\ \A k \in i..(j - 1) : IsDigit(s[k])
        /\ (j = Len(s) + 1 \/ ~IsDigit(s[j]))

\* end of the optional group (?:-\d+)? that starts at index i
SkipSuffix(s, i) ==
    IF i <= Len(s) /\ s[i] = "-" /\ SkipDigits(s, i + 1) > i + 1
    THEN SkipDigits(s, i + 1)
    ELSE i

\* str.strip()
strip(s) ==
    LET a == SkipSpaces(s, 1)
        b == IF a > Len(s) THEN 0
             ELSE CHOOSE j \in a..Len(s) :
                    /\ ~IsSpace(s[j])
                    /\ \A k \in (j + 1)..Len(s) : IsSpace(s[k])
    IN  SubSeq(s, a, b)

(***************************************************************************)
(* Helpers of bot.py.                                                      *)
(***************************************************************************)
\* os.getenv("TELEGRAM_BOT_USERNAME", "rebrickable_bot")
DEFAULT_BOT_USERNAME == <<"r","e","b","r","i","c","k","a","b","l","e","_","b","o","t">>

normalize_bot_username(u) ==
    LET v == strip(u)
    IN  IF v # <<>> /\ v[1] = "@" THEN SubSeq(v, 2, Len(v)) ELSE v

\* re.search(rf"@{re.escape(u)}\s+(\d+)(?:-\d+)?", text, re.IGNORECASE):
\* the start indexes at which the pattern matches
GroupMatches(text, u) ==
    LET pat == <<"@">> \o u
    IN  { i \in 1..Len(text) :
            /\ text[i] = "@"
            /\ i + Len(pat) - 1 <= Len(text)
            /\ lower(SubSeq(text, i, i + Len(pat) - 1)) = lower(pat)
            /\ SkipSpaces(text, i + Len(pat)) > i + Len(pat)
            /\ SkipDigits(text, SkipSpaces(text, i + Len(pat)))
                  > SkipSpaces(text, i + Len(pat)) }

extract_group_set_id(text, bot_username) ==
    IF text = <<>> THEN None
    ELSE LET u == normalize_bot_username(bot_username)
         IN  IF u = <<>> THEN None
             ELSE LET ms == GroupMatches(text, u)
                  IN  IF ms = {} THEN None
                      ELSE LET i == CHOOSE m \in ms : \A n \in ms : m <= n
                               d == SkipSpaces(text, i + Len(u) + 1)
                           IN  int(SubSeq(text, d, SkipDigits(text, d) - 1))

\* re.match(r"^\s*(\d+)(?:-\d+)?\s*$", text)
PrivateMatches(text) ==
    LET d == SkipSpaces(text, 1)
        e == SkipDigits(text, d)
    IN  /\ e > d
        /\ SkipSpaces(text, SkipSuffix(text, e)) = Len(text) + 1

extract_private_set_id(text) ==
    IF text = <<>> THEN None
    ELSE IF PrivateMatches(text)
         THEN LET d == SkipSpaces(text, 1)
              IN  int(SubSeq(text, d, SkipDigits(text, d) - 1))
         ELSE None

looks_like_moc_id(set_id) == Len(str(set_id)) = 6

MOC_URL_PREFIX == <<"h","t","t","p","s",":","/","/","r","e","b","r","i","c","k","a","b","l","e",".","c","o","m","/","m","o","c","s","/","M","O","C","-">>

moc_url_for_id(moc_id) == MOC_URL_PREFIX \o str(moc_id) \o <<"/">>

\* variant: `("404" in s) or "not found"`, true of every message
is_not_found_error_always(err_text) == TRUE

is_not_found_error(err_text) ==
    LET s == lower(err_text)
    IN  Contains(s, <<"4","0","4">>) \/ Contains(s, <<"n","o","t"," ","f","o","u","n","d">>)

(***************************************************************************)
(* Inputs: message texts, chats and the outcomes of the outbound calls.    *)
(***************************************************************************)
Zeros(n) == [i \in 1..n |-> "0"]
Sevens(n) == [i \in 1..n |-> "7"]

\* digit runs 0..0 7..7, among them "0", "07", the 6-digit "777777",
\* "077777" (6 digits, int of 5) and "0777777" (7 digits, int of 6)
DigitRuns ==
    { Zeros(z) \o Sevens(n) : <<z, n>> \in
        { p \in (0..MaxZeros) \X (0..MaxSevens) : p[1] + p[2] >= 1 } }

PFX_MENTION == <<"@","r","e","b","r","i","c","k","a","b","l","e","_","b","o","t"," ">>
PFX_MENTION_CASE == <<"@","R","e","b","r","i","c","k","a","b","l","e","_","B","o","t"," "," ">>
PFX_DIGITS_MENTION == <<"a"," ","5"," ","@","r","e","b","r","i","c","k","a","b","l","e","_","b","o","t"," ">>
PFX_NOSPACE == <<"@","r","e","b","r","i","c","k","a","b","l","e","_","b","o","t">>

Prefixes ==
    { <<>>, <<" ">>, <<"x">>,
      PFX_MENTION,
      PFX_MENTION_CASE,
      PFX_DIGITS_MENTION,
      PFX_NOSPACE }

Suffixes == { <<>>, <<"-","1">>, <<" ">>, <<"-">>, <<"b">> }

\* message.text or ""
Texts ==
    { p \o d \o s : <<p, d, s>> \in Prefixes \X DigitRuns \X Suffixes }
      \cup { <<>>, <<"h","i">>, PFX_MENTION \o <<"h","i">> }

\* message.chat.type
ChatTypes == { "private", "group", "supergroup", "channel" }

\* message.chat.id
ChatIds == 1..NumTasks

Messages == [chat_type : ChatTypes, chat_id : {1}, text : Texts]

\* TELEGRAM_BOT_USERNAME as the process may have it set
BotUsernames == { DEFAULT_BOT_USERNAME, <<" ","@","R","e","b","r","i","c","k","a","b","l","e","_","B","o","t">> }

\* the result of an outbound call: it returns, or raises cls(text)
Ok == [ok |-> TRUE, cls |-> "", text |-> <<>>]
Raise(cls, text) == [ok |-> FALSE, cls |-> cls, text |-> text]

ERR_HTTP_404 == <<"H","T","T","P"," ","E","r","r","o","r"," ","4","0","4",":"," ","N","o","t"," ","F","o","u","n","d">>
ERR_HTTP_500 == <<"H","T","T","P"," ","E","r","r","o","r"," ","5","0","0">>
ERR_CHAT_NOT_FOUND == <<"B","a","d"," ","R","e","q","u","e","s","t",":"," ","c","h","a","t"," ","n","o","t"," ","f","o","u","n","d">>
ERR_WRONG_TYPE == <<"B","a","d"," ","R","e","q","u","e","s","t",":"," ","w","r","o","n","g"," ","t","y","p","e"," ","o","f"," ","t","h","e"," ","w","e","b"," ","p","a","g","e"," ","c","o","n","t","e","n","t">>
ERR_TIMEOUT == <<"R","e","q","u","e","s","t"," ","t","i","m","e","o","u","t">>
ERR_FETCH_404 == <<"4","0","4",","," ","m","e","s","s","a","g","e","=","'","N","o","t"," ","F","o","u","n","d","'">>
ERR_NOT_IMAGE == <<"N","o","t"," ","a","n"," ","i","m","a","g","e",".">>
ERR_BLOCKED == <<"F","o","r","b","i","d","d","e","n",":"," ","b","o","t"," ","w","a","s"," ","b","l","o","c","k","e","d">>

\* rebrick.lego.get_set / json.loads
LookupOutcomes ==
    { Ok, Raise("HTTPError", ERR_HTTP_404), Raise("HTTPError", ERR_HTTP_500) }

\* bot.send_photo
PhotoOutcomes ==
    { Ok,
      Raise("TelegramBadRequest", ERR_WRONG_TYPE),
      Raise("TelegramBadRequest", ERR_CHAT_NOT_FOUND),
      Raise("TelegramNetworkError", ERR_WRONG_TYPE),
      Raise("TelegramNetworkError", ERR_TIMEOUT) }

\* fetch_image_bytes: raise_for_status, the Content-Type check, the timeout
\* (str(asyncio.TimeoutError()) is the empty string)
FetchOutcomes ==
    { Ok,
      Raise("ClientResponseError", ERR_FETCH_404),
      Raise("ValueError", ERR_NOT_IMAGE),
      Raise("TimeoutError", <<>>) }

\* bot.send_message
MessageOutcomes ==
    { Ok,
      Raise("TelegramBadRequest", ERR_CHAT_NOT_FOUND),
      Raise("TelegramForbiddenError", ERR_BLOCKED) }

(***************************************************************************)
(* State.                                                                  *)
(***************************************************************************)
VARIABLES
    bot_username,   \* the TELEGRAM_BOT_USERNAME of the process environment
    pc,             \* pc[h]: where handler task h stands
    message,        \* message[h]: the types.Message task h handles
    set_id,         \* set_id[h]: the local set_id of unified_message_handler
    err,            \* err[h]: str(error) of the exception the handler caught
    calls,          \* calls[h]: the outbound calls task h made, in order
    logged          \* logged[h]: lines task h printed to the process log

vars == <<bot_username, pc, message, set_id, err, calls, logged>>

Tasks == 1..NumTasks

NoMessage == [chat_type |-> "", chat_id |-> 0, text |-> <<>>]
NoReply == [kind |-> "", digits |-> <<>>, url |-> <<>>]

\* one outbound call and what it returned or raised
Call(op, chat, sid, photo, reply, res) ==
    [op |-> op, chat |-> chat, set_id |-> sid, photo |-> photo,
     reply |-> reply, res |-> res]

\* the soft prompt of lines 196-200
SOFT_PROMPT == [kind |-> "soft_prompt", digits |-> <<>>, url |-> <<>>]

\* `not set_id`: None and 0 are both falsy
Falsy(sid) == sid = None \/ sid = 0

\* the task that entered its handler last
LatestTask ==
    IF \E t \in Tasks : pc[t] # "idle"
    THEN CHOOSE t \in Tasks : pc[t] # "idle" /\ \A u \in Tasks : pc[u] # "idle" => u <= t
    ELSE 1

\* variant: the chat id read from a module-level "current message" that
\* every handler overwrites on entry
message_chat_id_shared(h) == message[LatestTask].chat_id

\* message.chat.id, read from the handler's own message argument
message_chat_id(h) == message[h].chat_id

\* re.search(r"(\d+)", raw): the first digit run, "" when there is none
FirstDigitRun(raw) ==
    IF \E i \in 1..Len(raw) : IsDigit(raw[i])
    THEN LET i == CHOOSE k \in 1..Len(raw) :
                    IsDigit(raw[k]) /\ \A j \in 1..(k - 1) : ~IsDigit(raw[j])
         IN  SubSeq(raw, i, SkipDigits(raw, i) - 1)
    ELSE <<>>

\* the reply the except clause builds for a not-found error
NotFoundReply(text) ==
    LET raw == strip(text)
        num_s == FirstDigitRun(raw)
        num == IF num_s # <<>> THEN int(num_s) ELSE None
    IN  IF num # None /\ looks_like_moc_id(num)
        THEN [kind |-> "moc", digits |-> str(num), url |-> moc_url_for_id(num)]
        ELSE IF num_s # <<>>
             THEN [kind |-> "not_found", digits |-> num_s, url |-> <<>>]
             ELSE [kind |-> "not_found_generic", digits |-> <<>>, url |-> <<>>]

WRONG_TYPE == <<"w","r","o","n","g"," ","t","y","p","e"," ","o","f"," ","t","h","e"," ","w","e","b"," ","p","a","g","e"," ","c","o","n","t","e","n","t">>

\* variant: the `return` after the direct-URL send is missing
AfterDirectSend_no_return(res) ==
    IF res.ok THEN "fetch_image_bytes"
    ELSE IF res.cls = "TelegramBadRequest" /\ Contains(res.text, WRONG_TYPE)
         THEN "fetch_image_bytes"
         ELSE "except"

\* variant: the fallback taken on every TelegramBadRequest
AfterDirectSend_any_bad_request(res) ==
    IF res.ok THEN "done"
    ELSE IF res.cls = "TelegramBadRequest"
         THEN "fetch_image_bytes"
         ELSE "except"

\* where send_set goes after the direct-URL send_photo: return, the
\* download fallback, or re-raise into the handler's except clause
AfterDirectSend(res) ==
    IF res.ok THEN "done"
    ELSE IF res.cls = "TelegramBadRequest" /\ Contains(res.text, WRONG_TYPE)
         THEN "fetch_image_bytes"
         ELSE "except"

\* the first stretch of the handler: extraction and the branch on it
AfterExtract(chat_type, sid) ==
    IF chat_type \in {"group", "supergroup"}
    THEN IF Falsy(sid) THEN "done" ELSE "get_set"
    ELSE IF chat_type = "private"
         THEN IF Falsy(sid) THEN "soft_prompt" ELSE "get_set"
         ELSE "done"

Extract(m) ==
    IF m.chat_type \in {"group", "supergroup"}
    THEN extract_group_set_id(m.text, bot_username)
    ELSE IF m.chat_type = "private"
         THEN extract_private_set_id(m.text)
         ELSE None

(***************************************************************************)
(* Actions.                                                                *)
(***************************************************************************)
Init ==
    /\ bot_username \in BotUsernames
    /\ pc = [h \in Tasks |-> "idle"]
    /\ message = [h \in Tasks |-> NoMessage]
    /\ set_id = [h \in Tasks |-> None]
    /\ err = [h \in Tasks |-> <<>>]
    /\ calls = [h \in Tasks |-> <<>>]
    /\ logged = [h \in Tasks |-> 0]

\* the dispatcher starts unified_message_handler(m) as task h; the task
\* runs to its first outbound call
unified_message_handler(h, m) ==
    /\ pc[h] = "idle"
    /\ message' = [message EXCEPT ![h] = m]
    /\ set_id' = [set_id EXCEPT ![h] = Extract(m)]
    /\ pc' = [pc EXCEPT ![h] = AfterExtract(m.chat_type, Extract(m))]
    /\ UNCHANGED <<bot_username, err, calls, logged>>

\* lines 196-201: the soft prompt of a private chat
send_soft_prompt(h, res) ==
    /\ pc[h] = "soft_prompt"
    /\ calls' = [calls EXCEPT ![h] =
          Append(@, Call("send_message", message_chat_id(h), None, "", SOFT_PROMPT, res))]
    /\ pc' = [pc EXCEPT ![h] = IF res.ok THEN "done" ELSE "except"]
    /\ err' = [err EXCEPT ![h] = IF res.ok THEN @ ELSE res.text]
    /\ UNCHANGED <<bot_username, message, set_id, logged>>

\* lines 139-141: the catalog lookup of send_set
get_set(h, res) ==
    /\ pc[h] = "get_set"
    /\ calls' = [calls EXCEPT ![h] =
          Append(@, Call("get_set", 0, set_id[h], "", NoReply, res))]
    /\ pc' = [pc EXCEPT ![h] = IF res.ok THEN "send_photo_url" ELSE "except"]
    /\ err' = [err EXCEPT ![h] = IF res.ok THEN @ ELSE res.text]
    /\ UNCHANGED <<bot_username, message, set_id, logged>>

\* lines 144-155: the direct-URL send_photo
send_photo_url(h, res) ==
    /\ pc[h] = "send_photo_url"
    /\ calls' = [calls EXCEPT ![h] =
          Append(@, Call("send_photo", message_chat_id(h), None, "url", NoReply, res))]
    /\ pc' = [pc EXCEPT ![h] = AfterDirectSend(res)]
    /\ err' = [err EXCEPT ![h] =
          IF AfterDirectSend(res) = "except" THEN res.text ELSE @]
    /\ UNCHANGED <<bot_username, message, set_id, logged>>

\* line 158: the HTTP GET of the image
fetch_image_bytes(h, res) ==
    /\ pc[h] = "fetch_image_bytes"
    /\ calls' = [calls EXCEPT ![h] =
          Append(@, Call("http_get", 0, None, "", NoReply, res))]
    /\ pc' = [pc EXCEPT ![h] = IF res.ok THEN "send_photo_bytes" ELSE "except"]
    /\ err' = [err EXCEPT ![h] = IF res.ok THEN @ ELSE res.text]
    /\ UNCHANGED <<bot_username, message, set_id, logged>>

\* lines 159-165: the re-send with the downloaded bytes
send_photo_bytes(h, res) ==
    /\ pc[h] = "send_photo_bytes"
    /\ calls' = [calls EXCEPT ![h] =
          Append(@, Call("send_photo", message_chat_id(h), None, "bytes", NoReply, res))]
    /\ pc' = [pc EXCEPT ![h] = IF res.ok THEN "done" ELSE "except"]
    /\ err' = [err EXCEPT ![h] = IF res.ok THEN @ ELSE res.text]
    /\ UNCHANGED <<bot_username, message, set_id, logged>>

\* lines 205-243: the except clause: one log line, then for a not-found
\* error the reply, whose send_message is outside any try
except_clause(h, res) ==
    /\ pc[h] = "except"
    /\ logged' = [logged EXCEPT ![h] = @ + 1]
    /\ IF is_not_found_error(err[h])
       THEN /\ calls' = [calls EXCEPT ![h] =
                  Append(@, Call("send_message", message_chat_id(h), None, "",
                                 NotFoundReply(message[h].text), res))]
            /\ pc' = [pc EXCEPT ![h] = IF res.ok THEN "done" ELSE "raised"]
       ELSE /\ res = Ok
            /\ calls' = calls
            /\ pc' = [pc EXCEPT ![h] = "done"]
    /\ UNCHANGED <<bot_username, message, set_id, err>>

\* the dispatcher is through with task h: the handler returned, or raised
\* into the dispatcher, which logs the error and goes on polling; the
\* task's locals are gone and the slot takes the next message
task_finished(h) ==
    /\ pc[h] \in {"done", "raised"}
    /\ pc' = [pc EXCEPT ![h] = "idle"]
    /\ message' = [message EXCEPT ![h] = NoMessage]
    /\ set_id' = [set_id EXCEPT ![h] = None]
    /\ err' = [err EXCEPT ![h] = <<>>]
    /\ calls' = [calls EXCEPT ![h] = <<>>]
    /\ logged' = [logged EXCEPT ![h] = 0]
    /\ UNCHANGED bot_username

Next ==
    \/ \E m \in Messages : unified_message_handler(1, m)
    \/ \E res \in MessageOutcomes : send_soft_prompt(1, res)
    \/ \E res \in LookupOutcomes : get_set(1, res)
    \/ \E res \in PhotoOutcomes : send_photo_url(1, res)
    \/ \E res \in FetchOutcomes : fetch_image_bytes(1, res)
    \/ \E res \in PhotoOutcomes : send_photo_bytes(1, res)
    \/ \E res \in MessageOutcomes : except_clause(1, res)
    \/ task_finished(1)

Spec == Init /\ [][Next]_vars

(***************************************************************************)
(* Concurrent handling: the dispatcher starts one task per message and the *)
(* tasks interleave at their outbound calls.  Task h handles the messages  *)
(* of chat h.  (rebrick.lego.get_set blocks the event loop; taking it as a *)
(* step of its own only adds interleavings.)                               *)
(***************************************************************************)
ConcMessages(h) ==
    { [chat_type |-> "private", chat_id |-> h, text |-> <<"7">>],
      [chat_type |-> "private", chat_id |-> h, text |-> <<"h","i">>],
      [chat_type |-> "group", chat_id |-> h, text |-> PFX_DIGITS_MENTION \o <<"7">>] }

ConcLookupOutcomes == { Ok, Raise("HTTPError", ERR_HTTP_404) }

ConcPhotoOutcomes ==
    { Ok,
      Raise("TelegramBadRequest", ERR_WRONG_TYPE),
      Raise("TelegramBadRequest", ERR_CHAT_NOT_FOUND) }

ConcFetchOutcomes == { Ok, Raise("ValueError", ERR_NOT_IMAGE) }

ConcResendOutcomes == { Ok, Raise("TelegramBadRequest", ERR_CHAT_NOT_FOUND) }

ConcMessageOutcomes == { Ok, Raise("TelegramBadRequest", ERR_CHAT_NOT_FOUND) }

NextConc ==
    \E h \in Tasks :
        \/ \E m \in ConcMessages(h) : unified_message_handler(h, m)
        \/ \E res \in ConcMessageOutcomes : send_soft_prompt(h, res)
        \/ \E res \in ConcLookupOutcomes : get_set(h, res)
        \/ \E res \in ConcPhotoOutcomes : send_photo_url(h, res)
        \/ \E res \in ConcFetchOutcomes : fetch_image_bytes(h, res)
        \/ \E res \in ConcResendOutcomes : send_photo_bytes(h, res)
        \/ \E res \in ConcMessageOutcomes : except_clause(h, res)
        \/ task_finished(h)

\* the process runs with TELEGRAM_BOT_USERNAME unset
InitConc ==
    /\ Init
    /\ bot_username = DEFAULT_BOT_USERNAME

SpecConc == InitConc /\ [][NextConc]_vars

(***************************************************************************)
(* Vocabulary of the properties.                                           *)
(***************************************************************************)
\* the handler of task h has returned or raised
Terminal(h) == pc[h] \in {"done", "raised"}

\* send_set of task h is over: it returned or raised
PipelineOver(h) == pc[h] \in {"done", "except", "raised"}

CallIdx(h, op) == { i \in 1..Len(calls[h]) : calls[h][i].op = op }

PhotoIdx(h, photo) ==
    { i \in CallIdx(h, "send_photo") : calls[h][i].photo = photo }

ReplyIdx(h, kinds) ==
    { i \in CallIdx(h, "send_message") : calls[h][i].reply.kind \in kinds }

NotFoundKinds == {"moc", "not_found", "not_found_generic"}

\* calls that handed a reply to the user: a send that returned
DeliveredIdx(h) ==
    { i \in 1..Len(calls[h]) :
        calls[h][i].op \in {"send_photo", "send_message"} /\ calls[h][i].res.ok }

\* the platform error of the fallback: a TelegramBadRequest whose message
\* contains "wrong type of the web page content"
IsWrongTypeError(res) ==
    ~res.ok /\ res.cls = "TelegramBadRequest" /\ Contains(res.text, WRONG_TYPE)

\* an error message classified OtherError: neither "404" nor, in any
\* letter case, "not found" occurs in it
IsOtherErrorText(t) ==
    /\ ~Contains(t, <<"4","0","4">>)
    /\ ~Contains(lower(t), <<"n","o","t"," ","f","o","u","n","d">>)

(***************************************************************************)
(* C1: in a private chat every text matching ^\s*\d+(-\d+)?\s*$ causes     *)
(* exactly one catalog lookup, of the leading digit run as an integer, and *)
(* no soft prompt, all-zero digit runs included.                           *)
(***************************************************************************)
C1_PrivateNumericLooksUp ==
    \A h \in Tasks :
        (Terminal(h) /\ message[h].chat_type = "private"
                     /\ PrivateMatches(message[h].text))
        => /\ Cardinality(CallIdx(h, "get_set")) = 1
           /\ \A i \in CallIdx(h, "get_set") :
                 calls[h][i].set_id = int(FirstDigitRun(message[h].text))
           /\ ReplyIdx(h, {"soft_prompt"}) = {}

(***************************************************************************)
(* C2: when no identifier is extracted the handler makes no lookup and     *)
(* sends no photo; in a private chat its only send is one soft prompt, in  *)
(* a group or supergroup it sends nothing.                                 *)
(***************************************************************************)
C2_NoIdentifierSoftPromptOrSilence ==
    \A h \in Tasks :
        (Terminal(h) /\ message[h].chat_type \in {"private", "group", "supergroup"}
                     /\ Extract(message[h]) = None)
        => /\ CallIdx(h, "get_set") = {}
           /\ CallIdx(h, "send_photo") = {}
           /\ message[h].chat_type = "private" =>
                 /\ Cardinality(CallIdx(h, "send_message")) = 1
                 /\ ReplyIdx(h, {"soft_prompt"}) = CallIdx(h, "send_message")
                 /\ \A i \in CallIdx(h, "send_message") :
                       calls[h][i].chat = message[h].chat_id
           /\ message[h].chat_type # "private" => calls[h] = <<>>

(***************************************************************************)
(* C3 as stated: after a direct-URL send that raised the wrong-type        *)
(* platform error send_set has made exactly one HTTP GET and exactly one   *)
(* re-send with the bytes; after any other error of the direct-URL send it *)
(* raised that error with no GET and no second send.                       *)
(***************************************************************************)
C3_WrongTypeOneGetOneResend ==
    \A h \in Tasks : \A i \in PhotoIdx(h, "url") :
        (PipelineOver(h) /\ ~calls[h][i].res.ok)
        => IF IsWrongTypeError(calls[h][i].res)
           THEN /\ Cardinality(CallIdx(h, "http_get")) = 1
                /\ Cardinality(PhotoIdx(h, "bytes")) = 1
           ELSE /\ CallIdx(h, "http_get") = {}
                /\ Cardinality(CallIdx(h, "send_photo")) = 1
                /\ err[h] = calls[h][i].res.text

(***************************************************************************)
(* C3 as amended: after a direct-URL send that raised the wrong-type       *)
(* TelegramBadRequest send_set has made exactly one HTTP GET; when the GET *)
(* returned the bytes it has made exactly one re-send with them, and when  *)
(* the GET raised it raised that failure without a second send.  After any *)
(* other error of the direct-URL send it raised that error with no GET and *)
(* no second send.                                                         *)
(***************************************************************************)
C3_WrongTypeOneGetResendIfFetched ==
    \A h \in Tasks : \A i \in PhotoIdx(h, "url") :
        (PipelineOver(h) /\ ~calls[h][i].res.ok)
        => IF IsWrongTypeError(calls[h][i].res)
           THEN /\ Cardinality(CallIdx(h, "http_get")) = 1
                /\ \A g \in CallIdx(h, "http_get") :
                      IF calls[h][g].res.ok
                      THEN /\ Cardinality(PhotoIdx(h, "bytes")) = 1
                           /\ Cardinality(CallIdx(h, "send_photo")) = 2
                      ELSE /\ Cardinality(CallIdx(h, "send_photo")) = 1
                           /\ err[h] = calls[h][g].res.text
           ELSE /\ CallIdx(h, "http_get") = {}
                /\ Cardinality(CallIdx(h, "send_photo")) = 1
                /\ err[h] = calls[h][i].res.text

\* the fallback ran to its end: wrong-type error, one GET, one re-send
C3_Witness ==
    \E h \in Tasks :
        /\ pc[h] = "done"
        /\ \E i \in PhotoIdx(h, "url") : IsWrongTypeError(calls[h][i].res)
        /\ \E g \in CallIdx(h, "http_get") : calls[h][g].res.ok
        /\ \E b \in PhotoIdx(h, "bytes") : calls[h][b].res.ok

(***************************************************************************)
(* C4: the NotFound reply is chosen by the length of the first digit run   *)
(* of the raw text: exactly 6 digits give the MOC message with the         *)
(* identifier and the link .../mocs/MOC-<id>/, any other length gives      *)
(* "Набор <digits> не найден!", no digits give "Набор не найден!"; leading *)
(* zeros included.                                                         *)
(***************************************************************************)
C4_SixDigitRunIsMoc ==
    \A h \in Tasks : \A i \in ReplyIdx(h, NotFoundKinds) :
        LET run == FirstDigitRun(message[h].text)
            r == calls[h][i].reply
        IN  IF Len(run) = 6
            THEN /\ r.kind = "moc"
                 /\ int(r.digits) = int(run)
                 /\ r.url = MOC_URL_PREFIX \o r.digits \o <<"/">>
            ELSE IF run # <<>>
                 THEN r.kind = "not_found" /\ r.digits = run
                 ELSE r.kind = "not_found_generic"

(***************************************************************************)
(* C5: no error escapes unified_message_handler, whatever the lookup, the  *)
(* photo sends, the image fetch and the text sends do.                     *)
(***************************************************************************)
C5_NoErrorEscapes ==
    \A h \in Tasks : pc[h] # "raised"

(***************************************************************************)
(* C6: when the catalog lookup fails with a message classified OtherError  *)
(* the handler sends nothing to the user, and when it has returned it has  *)
(* logged exactly one line.                                                *)
(***************************************************************************)
C6_OtherErrorOnlyLogged ==
    \A h \in Tasks : \A i \in CallIdx(h, "get_set") :
        (~calls[h][i].res.ok /\ IsOtherErrorText(calls[h][i].res.text))
        => /\ CallIdx(h, "send_message") = {}
           /\ CallIdx(h, "send_photo") = {}
           /\ logged[h] <= 1
           /\ pc[h] # "raised"
           /\ Terminal(h) => logged[h] = 1

\* a handler returned after a lookup that failed with an OtherError
C6_Witness ==
    \E h \in Tasks : \E i \in CallIdx(h, "get_set") :
        /\ pc[h] = "done"
        /\ ~calls[h][i].res.ok
        /\ IsOtherErrorText(calls[h][i].res.text)
        /\ logged[h] = 1

(***************************************************************************)
(* C7: a MOC-link or "не найден" reply is sent only after the catalog      *)
(* lookup of that message failed: never after a successful lookup, never   *)
(* without a lookup.                                                       *)
(***************************************************************************)
C7_ResponderOnlyAfterLookupFailure ==
    \A h \in Tasks : \A i \in ReplyIdx(h, NotFoundKinds) :
        \E j \in CallIdx(h, "get_set") : j < i /\ ~calls[h][j].res.ok

(***************************************************************************)
(* C9: the identifier shown in a MOC or "Набор <digits> не найден!" reply  *)
(* is the identifier that was passed to the catalog lookup of the message, *)
(* in private chats and in groups where digits precede the mention.        *)
(***************************************************************************)
C9_ReplyShowsLookedUpId ==
    \A h \in Tasks : \A i \in ReplyIdx(h, {"moc", "not_found"}) :
        \A j \in CallIdx(h, "get_set") :
            calls[h][j].set_id = int(calls[h][i].reply.digits)

(***************************************************************************)
(* C10: at most one reply is delivered for a message, and nothing is sent  *)
(* after a delivered reply: no text after a delivered photo, no second     *)
(* reply beside a delivered text.                                          *)
(***************************************************************************)
C10_AtMostOneDelivered ==
    \A h \in Tasks :
        /\ Cardinality(DeliveredIdx(h)) <= 1
        /\ \A i \in DeliveredIdx(h) : i = Len(calls[h])

\* a reply was delivered after an earlier send of the same message failed
C10_Witness ==
    \E h \in Tasks :
        /\ pc[h] = "done"
        /\ DeliveredIdx(h) # {}
        /\ \E i \in 1..Len(calls[h]) :
              calls[h][i].op \in {"send_photo", "send_message"} /\ ~calls[h][i].res.ok

(***************************************************************************)
(* The handler run alone: the calls unified_message_handler(m) makes, one  *)
(* after the other with nothing in between, when its k-th call returns or  *)
(* raises outs[k].                                                         *)
(***************************************************************************)
\* an error caught by the except clause that is no not-found error ends
\* the handler with no further call
AloneSettle(r) ==
    IF r.pc = "except" /\ ~is_not_found_error(r.err)
    THEN [r EXCEPT !.pc = "done"]
    ELSE r

AloneStep(m, sid, r, res) ==
    LET to(p, c) == [pc |-> p, calls |-> Append(r.calls, c),
                     err |-> IF p = "except" THEN res.text ELSE r.err]
    IN  IF r.pc = "soft_prompt"
        THEN to(IF res.ok THEN "done" ELSE "except",
                Call("send_message", m.chat_id, None, "", SOFT_PROMPT, res))
        ELSE IF r.pc = "get_set"
        THEN to(IF res.ok THEN "send_photo_url" ELSE "except",
                Call("get_set", 0, sid, "", NoReply, res))
        ELSE IF r.pc = "send_photo_url"
        THEN to(IF res.ok THEN "done"
                ELSE IF IsWrongTypeError(res) THEN "fetch_image_bytes" ELSE "except",
                Call("send_photo", m.chat_id, None, "url", NoReply, res))
        ELSE IF r.pc = "fetch_image_bytes"
        THEN to(IF res.ok THEN "send_photo_bytes" ELSE "except",
                Call("http_get", 0, None, "", NoReply, res))
        ELSE IF r.pc = "send_photo_bytes"
        THEN to(IF res.ok THEN "done" ELSE "except",
                Call("send_photo", m.chat_id, None, "bytes", NoReply, res))
        ELSE IF r.pc = "except"
        THEN to(IF res.ok THEN "done" ELSE "raised",
                Call("send_message", m.chat_id, None, "", NotFoundReply(m.text), res))
        ELSE r

\* sid is the identifier extracted from m
RECURSIVE AloneFrom(_, _, _)
AloneFrom(m, sid, outs) ==
    IF outs = <<>>
    THEN [pc |-> AfterExtract(m.chat_type, sid), calls |-> <<>>, err |-> <<>>]
    ELSE AloneSettle(AloneStep(m, sid, AloneFrom(m, sid, SubSeq(outs, 1, Len(outs) - 1)),
                               outs[Len(outs)]))

AloneRun(m, outs) == AloneFrom(m, Extract(m), outs)

\* what the calls of task h returned or raised, in order
Outs(h) == [i \in 1..Len(calls[h]) |-> calls[h][i].res]

(***************************************************************************)
(* C8: with the handlers of several chats interleaved at their outbound    *)
(* calls, every send of a task goes to the chat of the task's own message, *)
(* and the calls a task makes are the calls the handler makes for that     *)
(* message alone, given the same results of those calls.                   *)
(***************************************************************************)
C8_InterleavedAsAlone ==
    \A h \in Tasks :
        pc[h] # "idle" =>
            LET alone == AloneRun(message[h], Outs(h))
            IN  /\ \A i \in CallIdx(h, "send_photo") \cup CallIdx(h, "send_message") :
                      calls[h][i].chat = message[h].chat_id
                /\ calls[h] = alone.calls
                /\ Terminal(h) => alone.pc = pc[h]

\* two tasks of different chats ran interleaved: one is halfway through
\* the download fallback while the other has made its calls and returned
C8_Witness ==
    \E h, k \in Tasks :
        /\ h # k
        /\ message[h].chat_id # message[k].chat_id
        /\ Len(calls[h]) >= 2 /\ Len(calls[k]) >= 2
        /\ CallIdx(h, "send_photo") # {} /\ CallIdx(k, "send_message") # {}
        /\ pc[h] = "fetch_image_bytes"
        /\ pc[k] = "done"

====
